---------------------------- MODULE Spec2Model ----------------------------
(***************************************************************************)
(* Model of the zero-width steganographic codec of stegano-cli             *)
(* (src/src/stego.rs) and of the encode command that drives it             *)
(* (src/src/main.rs).                                                      *)
(*                                                                         *)
(* Characters are Unicode code points (naturals), texts are sequences of   *)
(* code points, bytes are naturals in 0..255.  A u32 is a pair <<hi, lo>>  *)
(* of 16-bit halves, because the checker's integers are 32-bit signed.     *)
(***************************************************************************)
EXTENDS Integers, Sequences, FiniteSets

(***************************************************************************)
(* Bounds of the model.                                                    *)
(***************************************************************************)
\* Longest cover text, in characters.
MaxCover == 56
\* Longest payload, in bytes.
MaxPayload == 2
\* A cover text holds at most one marker code point of its own, at an index
\* in 1..MaxMarkerPos.
MaxMarkerPos == 2

\* The decoder is stepped over at most MaxGroups groups of at most MaxRun bit
\* symbols, each group closed by a joiner.
MaxGroups == 2
MaxRun == 9

\* The decoder is also stepped over an input given as at most MaxRuns runs,
\* a run being one character repeated.
MaxRuns == 6

\* Payload bytes are drawn from this set.
ByteSet == {0, 83, 255}

(***************************************************************************)
(* The three marker code points.                                           *)
(***************************************************************************)
ZW_SPACE == 8203
ZW_NON_JOINER == 8204
ZW_JOINER == 8205

Markers == {ZW_SPACE, ZW_NON_JOINER, ZW_JOINER}

(***************************************************************************)
(* Sequence helpers.                                                       *)
(***************************************************************************)
Filter(s, keep) == LET Kept(c) == c \in keep IN SelectSeq(s, Kept)

FilterOut(s, drop) == LET Kept(c) == c \notin drop IN SelectSeq(s, Kept)

RECURSIVE Pow2(_)
Pow2(n) == IF n = 0 THEN 1 ELSE 2 * Pow2(n - 1)

Min(a, b) == IF a < b THEN a ELSE b

(***************************************************************************)
(* bytes_to_zero_width: 8 bits most significant first, then the joiner.    *)
(***************************************************************************)
\* A variant of ByteSymbols with the bits least significant first.
ByteSymbolsLsbFirst(byte) ==
    [k \in 1..8 |-> IF (byte \div Pow2(k - 1)) % 2 = 1
                    THEN ZW_NON_JOINER ELSE ZW_SPACE] \o <<ZW_JOINER>>

ByteSymbols(byte) ==
    [k \in 1..8 |-> IF (byte \div Pow2(8 - k)) % 2 = 1
                    THEN ZW_NON_JOINER ELSE ZW_SPACE] \o <<ZW_JOINER>>

RECURSIVE bytes_to_zero_width(_)
bytes_to_zero_width(data) ==
    IF data = <<>> THEN <<>>
    ELSE ByteSymbols(Head(data)) \o bytes_to_zero_width(Tail(data))

(***************************************************************************)
(* zero_width_to_bytes: the decoder's loop body, one character at a time,  *)
(* over the state [result, current_byte, bit_count].  current_byte is a    *)
(* u8: the shift drops the bit that leaves the byte.                       *)
(***************************************************************************)
DecodeStart == [result |-> <<>>, current_byte |-> 0, bit_count |-> 0]

\* bit_count is an i32 (`let mut bit_count = 0`, no other constraint on its
\* type): `bit_count += 1` at i32::MAX wraps to i32::MIN in a build without
\* overflow checks and panics in a build with them.  wrapping_inc is the
\* wrapping outcome; the panic is an outcome of the step that reads the input.
MaxI32 == 2147483647

MinI32 == (-MaxI32) - 1

wrapping_inc(n) == IF n = MaxI32 THEN MinI32 ELSE n + 1

\* A variant of DecodeStep that resets accumulator and bit-count on a joiner
\* read at a bit-count other than 8.
DecodeStepResync(st, ch) ==
    IF ch = ZW_SPACE
    THEN [st EXCEPT !.current_byte = (2 * st.current_byte) % 256,
                    !.bit_count = wrapping_inc(st.bit_count)]
    ELSE IF ch = ZW_NON_JOINER
    THEN [st EXCEPT !.current_byte = (2 * st.current_byte + 1) % 256,
                    !.bit_count = wrapping_inc(st.bit_count)]
    ELSE IF ch = ZW_JOINER
    THEN IF st.bit_count = 8
         THEN [result |-> Append(st.result, st.current_byte),
               current_byte |-> 0, bit_count |-> 0]
         ELSE [st EXCEPT !.current_byte = 0, !.bit_count = 0]
    ELSE st

DecodeStep(st, ch) ==
    IF ch = ZW_SPACE
    THEN [st EXCEPT !.current_byte = (2 * st.current_byte) % 256,
                    !.bit_count = wrapping_inc(st.bit_count)]
    ELSE IF ch = ZW_NON_JOINER
    THEN [st EXCEPT !.current_byte = (2 * st.current_byte + 1) % 256,
                    !.bit_count = wrapping_inc(st.bit_count)]
    ELSE IF ch = ZW_JOINER
    THEN IF st.bit_count = 8
         THEN [result |-> Append(st.result, st.current_byte),
               current_byte |-> 0, bit_count |-> 0]
         ELSE st
    ELSE st

\* The loop over encoded[lo..hi], split in halves to keep the evaluation flat.
RECURSIVE DecodeLoop(_, _, _, _)
DecodeLoop(st, encoded, lo, hi) ==
    IF lo > hi THEN st
    ELSE IF lo = hi THEN DecodeStep(st, encoded[lo])
    ELSE LET mid == (lo + hi) \div 2
             left == DecodeLoop(st, encoded, lo, mid)
         IN  IF left.bit_count = left.bit_count
             THEN DecodeLoop(left, encoded, mid + 1, hi)
             ELSE left

zero_width_to_bytes(encoded) ==
    LET result == DecodeLoop(DecodeStart, encoded, 1, Len(encoded)).result
    IN  IF result = <<>> THEN [tag |-> "NoDataFound"]
        ELSE [tag |-> "Ok", bytes |-> result]

(***************************************************************************)
(* crc32: CRC-32/ISO-HDLC (crc32fast::hash), reflected, polynomial         *)
(* 0xEDB88320, initial value and final xor 0xFFFFFFFF.                     *)
(***************************************************************************)
\* Bit p (a power of two) of a xor b.
XorBit(a, b, p) == (((a \div p) + (b \div p)) % 2) * p

\* a xor b on 16-bit halves.
Xor16(a, b) ==
    XorBit(a, b, 1) + XorBit(a, b, 2) + XorBit(a, b, 4) + XorBit(a, b, 8)
    + XorBit(a, b, 16) + XorBit(a, b, 32) + XorBit(a, b, 64) + XorBit(a, b, 128)
    + XorBit(a, b, 256) + XorBit(a, b, 512) + XorBit(a, b, 1024)
    + XorBit(a, b, 2048) + XorBit(a, b, 4096) + XorBit(a, b, 8192)
    + XorBit(a, b, 16384) + XorBit(a, b, 32768)

Xor32(x, y) == <<Xor16(x[1], y[1]), Xor16(x[2], y[2])>>

Shr1(x) == <<x[1] \div 2, (x[2] \div 2) + (x[1] % 2) * 32768>>

CrcPoly == <<60856, 33568>>
CrcAllOnes == <<65535, 65535>>

RECURSIVE CrcBits(_, _)
CrcBits(reg, n) ==
    IF n = 0 THEN reg
    ELSE CrcBits(IF reg[2] % 2 = 1 THEN Xor32(Shr1(reg), CrcPoly) ELSE Shr1(reg),
                 n - 1)

RECURSIVE CrcUpdate(_, _)
CrcUpdate(reg, data) ==
    IF data = <<>> THEN reg
    ELSE CrcUpdate(CrcBits(Xor32(reg, <<0, Head(data)>>), 8), Tail(data))

crc32(data) == Xor32(CrcUpdate(CrcAllOnes, data), CrcAllOnes)

\* u32::to_le_bytes and u32::from_le_bytes
to_le_bytes(x) == <<x[2] % 256, x[2] \div 256, x[1] % 256, x[1] \div 256>>
from_le_bytes(b) == <<b[4] * 256 + b[3], b[2] * 256 + b[1]>>

(***************************************************************************)
(* embed.  The walk over the visible characters is the for loop of the     *)
(* source: index i is 1-based here, zw_index counts the symbols consumed.  *)
(***************************************************************************)
saturating_sub(a, b) == IF a < b THEN 0 ELSE a - b

chars_per_byte == 9

injection_points(cover_text) == saturating_sub(Len(cover_text), 1)

\* A variant of capacity that counts characters instead of gaps.
capacity_of_chars(cover_text) == Len(cover_text) \div chars_per_byte

capacity(cover_text) == injection_points(cover_text) \div chars_per_byte

data_with_checksum(data) == to_le_bytes(crc32(data)) \o data

\* A variant of chunk_size that rounds up.
chunk_size_rounded_up(cover_text, zw_chars) ==
    IF injection_points(cover_text) > 0
    THEN (Len(zw_chars) + injection_points(cover_text) - 1)
            \div injection_points(cover_text)
    ELSE Len(zw_chars)

chunk_size(cover_text, zw_chars) ==
    IF injection_points(cover_text) > 0
    THEN Len(zw_chars) \div injection_points(cover_text)
    ELSE Len(zw_chars)

\* A variant of WalkStep that takes chunk symbols per gap, not chunk + 1.
WalkStepChunkOnly(w, i, visible_chars, zw_chars, chunk) ==
    LET pushed == Append(w.result, visible_chars[i])
    IN  IF i < Len(visible_chars) /\ w.zw_index < Len(zw_chars)
        THEN LET end == Min(w.zw_index + chunk, Len(zw_chars))
             IN  [result |-> pushed \o SubSeq(zw_chars, w.zw_index + 1, end),
                  zw_index |-> end]
        ELSE [w EXCEPT !.result = pushed]

\* One iteration of the for loop, at 1-based index i.
WalkStep(w, i, visible_chars, zw_chars, chunk) ==
    LET pushed == Append(w.result, visible_chars[i])
    IN  IF i < Len(visible_chars) /\ w.zw_index < Len(zw_chars)
        THEN LET end == Min(w.zw_index + chunk + 1, Len(zw_chars))
             IN  [result |-> pushed \o SubSeq(zw_chars, w.zw_index + 1, end),
                  zw_index |-> end]
        ELSE [w EXCEPT !.result = pushed]

\* The iterations lo..hi, split in halves to keep the evaluation flat.
RECURSIVE EmbedWalk(_, _, _, _, _, _)
EmbedWalk(w, lo, hi, visible_chars, zw_chars, chunk) ==
    IF lo > hi THEN w
    ELSE IF lo = hi THEN WalkStep(w, lo, visible_chars, zw_chars, chunk)
    ELSE LET mid == (lo + hi) \div 2
             left == EmbedWalk(w, lo, mid, visible_chars, zw_chars, chunk)
         IN  IF left.zw_index >= 0
             THEN EmbedWalk(left, mid + 1, hi, visible_chars, zw_chars, chunk)
             ELSE left

\* The state of the walk when the loop ends: the text built so far and the
\* number of symbols placed in the injection points.
Distribute(cover_text, zw_chars) ==
    EmbedWalk([result |-> <<>>, zw_index |-> 0], 1, Len(cover_text),
              cover_text, zw_chars, chunk_size(cover_text, zw_chars))

embed(cover_text, data) ==
    LET with_sum == data_with_checksum(data)
    IN  IF capacity(cover_text) < Len(with_sum)
        THEN [tag |-> "InsufficientCover",
              needed |-> Len(with_sum), available |-> capacity(cover_text)]
        ELSE LET zw_chars == bytes_to_zero_width(with_sum)
                 walk == Distribute(cover_text, zw_chars)
             IN  [tag |-> "Ok",
                  text |-> walk.result
                             \o SubSeq(zw_chars, walk.zw_index + 1, Len(zw_chars))]

(***************************************************************************)
(* extract                                                                 *)
(***************************************************************************)
\* A variant of extract whose length check asks for more than the checksum.
extract_needs_payload(artifact_text) ==
    LET decoded_bytes == zero_width_to_bytes(artifact_text)
    IN  IF decoded_bytes.tag # "Ok" THEN [tag |-> "NoDataFound"]
        ELSE IF Len(decoded_bytes.bytes) <= 4 THEN [tag |-> "NoDataFound"]
        ELSE LET stored_checksum == from_le_bytes(SubSeq(decoded_bytes.bytes, 1, 4))
                 rest == SubSeq(decoded_bytes.bytes, 5, Len(decoded_bytes.bytes))
             IN  IF stored_checksum # crc32(rest)
                 THEN [tag |-> "IntegrityFailure"]
                 ELSE [tag |-> "Ok", bytes |-> rest]

extract(artifact_text) ==
    LET decoded_bytes == zero_width_to_bytes(artifact_text)
    IN  IF decoded_bytes.tag # "Ok" THEN [tag |-> "NoDataFound"]
        ELSE IF Len(decoded_bytes.bytes) < 4 THEN [tag |-> "NoDataFound"]
        ELSE LET stored_checksum == from_le_bytes(SubSeq(decoded_bytes.bytes, 1, 4))
                 rest == SubSeq(decoded_bytes.bytes, 5, Len(decoded_bytes.bytes))
             IN  IF stored_checksum # crc32(rest)
                 THEN [tag |-> "IntegrityFailure"]
                 ELSE [tag |-> "Ok", bytes |-> rest]

(***************************************************************************)
(* Inputs.  A cover text of n characters is a run of distinct-looking      *)
(* letters; Cover(n, k, m) carries the code point m at index k.            *)
(***************************************************************************)
Letter(i) == 97 + ((i - 1) % 26)

Cover(n, k, m) == [i \in 1..n |-> IF i = k THEN m ELSE Letter(i)]

PlainCovers == {Cover(n, 0, 0) : n \in 0..MaxCover}

MarkedCovers ==
    {Cover(n, k, m) : n \in 1..MaxCover, k \in 1..MaxMarkerPos, m \in Markers}

Covers == PlainCovers \cup MarkedCovers

Payloads == UNION {[1..l -> ByteSet] : l \in 0..MaxPayload}

None == [tag |-> "None"]

(***************************************************************************)
(* State.                                                                  *)
(*   cover, payload   the arguments of embed                               *)
(*   embedResult      what embed returned (None before the call)           *)
(*   text             the text handed to extract or to the decoder         *)
(*   extractResult    what extract returned (None before the call)         *)
(*   phase            where the run of the codec stands                    *)
(* The decoder zero_width_to_bytes, one character per step:                *)
(*   pos              number of characters of text already read            *)
(*   dec              its locals [result, current_byte, bit_count]         *)
(*   decoded          what it returned (None before it returns)            *)
(* The encode command:                                                     *)
(*   pc               the statement of encode / main that runs next        *)
(*   opts             the command line: where the message comes from, the  *)
(*                    kind of credential, where the output goes            *)
(*   steps            the steps of encode completed so far, in order       *)
(*   encodeResult     what encode returned (None before it returns)        *)
(*   written          the characters that reached the output file/stdout   *)
(*   errStream        what was printed on the error stream, in order       *)
(*   exitStatus       the exit status of the process (-1 while it runs)    *)
(***************************************************************************)
VARIABLES cover, payload, embedResult, text, extractResult, phase,
          pos, dec, decoded, stalled,
          pc, opts, steps, encodeResult, written, errStream, exitStatus

codecVars == <<cover, payload, embedResult, text, extractResult, phase>>
decVars == <<pos, dec, decoded, stalled>>
cliVars == <<pc, opts, steps, encodeResult, written, errStream, exitStatus>>
vars == <<codecVars, decVars, cliVars>>

NoOpts == [message |-> "none", credential |-> "none", output |-> "none"]

\* The decoder is not being stepped.
DecIdle == pos = 0 /\ dec = DecodeStart /\ decoded = None /\ stalled = -1

\* stalled records the run of the loop: -1 until a joiner is read at a
\* bit-count above 8, from then on the number of bytes committed before it.
Stall(st, ch, s) ==
    IF s = -1 /\ ch = ZW_JOINER /\ st.bit_count > 8 THEN Len(st.result) ELSE s

\* No command is running.
CliIdle ==
    /\ pc = "none"
    /\ opts = NoOpts
    /\ steps = <<>>
    /\ encodeResult = None
    /\ written = <<>>
    /\ errStream = <<>>
    /\ exitStatus = -1

Init ==
    /\ cover \in Covers
    /\ payload \in Payloads
    /\ embedResult = None
    /\ text = <<>>
    /\ extractResult = None
    /\ phase = "input"
    /\ DecIdle
    /\ CliIdle

\* stego::embed(&cover, &payload): on success the artifact is the text that
\* is stored or sent.
Embed ==
    /\ phase = "input"
    /\ embedResult' = embed(cover, payload)
    /\ text' = IF embedResult'.tag = "Ok" THEN embedResult'.text ELSE text
    /\ phase' = IF embedResult'.tag = "Ok" THEN "artifact" ELSE "rejected"
    /\ UNCHANGED <<cover, payload, extractResult, decVars, cliVars>>

\* The decode command reads a text that no embed produced.
LoadText ==
    /\ phase = "input"
    /\ text' = cover
    /\ phase' = "loaded"
    /\ UNCHANGED <<cover, payload, embedResult, extractResult, decVars, cliVars>>

\* stego::extract(&text)
Extract ==
    /\ phase \in {"artifact", "loaded", "damaged"}
    /\ extractResult' = extract(text)
    /\ phase' = "extracted"
    /\ UNCHANGED <<cover, payload, embedResult, text, decVars, cliVars>>

Next == Embed \/ LoadText \/ Extract

Spec == Init /\ [][Next]_vars

(***************************************************************************)
(* Damage to an artifact between embed and extract: every character of     *)
(* text[i..j] that is one of `kinds` is deleted (the test detects_corruption*)
(* deletes U+200C everywhere).  i and j are deleted characters themselves. *)
(***************************************************************************)
DeleteIn(t, i, j, kinds) ==
    SubSeq(t, 1, i - 1) \o FilterOut(SubSeq(t, i, j), kinds) \o SubSeq(t, j + 1, Len(t))

DeletableKinds == {{ZW_JOINER}, {ZW_NON_JOINER}, {ZW_JOINER, ZW_NON_JOINER}}

Corrupt ==
    /\ phase = "artifact"
    /\ \E kinds \in DeletableKinds :
       \E i \in 1..Len(text) :
       \E j \in i..Len(text) :
          /\ text[i] \in kinds
          /\ text[j] \in kinds
          /\ text' = DeleteIn(text, i, j, kinds)
    /\ phase' = "damaged"
    /\ UNCHANGED <<cover, payload, embedResult, extractResult, decVars, cliVars>>

NextCorrupt == Embed \/ LoadText \/ Corrupt \/ Extract

SpecCorrupt == Init /\ [][NextCorrupt]_vars

(***************************************************************************)
(* zero_width_to_bytes, one character of its input per step.               *)
(*                                                                         *)
(* The inputs are built from groups: Group(n, first) is n bit symbols,     *)
(* alternating from `first`, closed by a joiner and followed by a visible  *)
(* letter.                                                                 *)
(***************************************************************************)
Group(n, first) ==
    [k \in 1..n |-> IF k % 2 = 1 THEN first
                    ELSE IF first = ZW_SPACE THEN ZW_NON_JOINER ELSE ZW_SPACE]
        \o <<ZW_JOINER, Letter(n + 1)>>

Groups == {Group(n, first) : n \in 0..MaxRun, first \in {ZW_SPACE, ZW_NON_JOINER}}

\* The texts of at most n groups.
RECURSIVE GroupTexts(_)
GroupTexts(n) ==
    IF n = 0 THEN {<<>>}
    ELSE LET shorter == GroupTexts(n - 1)
         IN  shorter \cup {t \o g : t \in shorter, g \in Groups}

InitDecode ==
    /\ text \in GroupTexts(MaxGroups)
    /\ cover = <<>>
    /\ payload = <<>>
    /\ embedResult = None
    /\ extractResult = None
    /\ phase = "decoding"
    /\ DecIdle
    /\ CliIdle

\* One iteration of `for ch in encoded.chars()`.
DecodeChar ==
    /\ phase = "decoding"
    /\ pos < Len(text)
    /\ dec' = DecodeStep(dec, text[pos + 1])
    /\ stalled' = Stall(dec, text[pos + 1], stalled)
    /\ pos' = pos + 1
    /\ UNCHANGED <<codecVars, decoded, cliVars>>

\* The end of the loop: NoDataFound for an empty result, else the bytes.
DecodeReturn ==
    /\ phase = "decoding"
    /\ pos = Len(text)
    /\ decoded' = IF dec.result = <<>> THEN [tag |-> "NoDataFound"]
                  ELSE [tag |-> "Ok", bytes |-> dec.result]
    /\ phase' = "decoded"
    /\ UNCHANGED <<cover, payload, embedResult, text, extractResult,
                   pos, dec, stalled, cliVars>>

NextDecode == DecodeChar \/ DecodeReturn

SpecDecode == InitDecode /\ [][NextDecode]_vars

(***************************************************************************)
(* zero_width_to_bytes, one run of its input per step.  A run is n copies  *)
(* of one character, and DecodeRun is the loop body applied n times, in    *)
(* closed form, which lets the input be as long as a string can be: a run  *)
(* of bit symbols has 1..MaxRun or i32::MAX characters.  pos counts the    *)
(* runs read.                                                              *)
(*                                                                         *)
(* The source does not fix the build: phase is "scan_checked" in a build   *)
(* with overflow checks, where `bit_count += 1` panics at i32::MAX, and    *)
(* "scan_wrapping" in a build without them, where it wraps.                *)
(***************************************************************************)
BitSymbols == {ZW_SPACE, ZW_NON_JOINER}

\* n times wrapping_inc, for n in 1..MaxI32.
wrapping_add(b, n) ==
    IF b > MaxI32 - n THEN (b - MaxI32 - 1) + (n - MaxI32 - 1) ELSE b + n

\* n times `bit_count += 1` from st overflows.
Overflows(st, ch, n) == ch \in BitSymbols /\ st.bit_count > MaxI32 - n

\* n times `current_byte = (current_byte << 1) | bit`.
ShiftIn(byte, bit, n) ==
    IF n >= 8 THEN 255 * bit
    ELSE (byte * Pow2(n) + bit * (Pow2(n) - 1)) % 256

DecodeRun(st, ch, n) ==
    IF ch \in BitSymbols
    THEN [st EXCEPT !.current_byte =
                        ShiftIn(st.current_byte,
                                IF ch = ZW_NON_JOINER THEN 1 ELSE 0, n),
                    !.bit_count = wrapping_add(st.bit_count, n)]
    ELSE DecodeStep(st, ch)

RunLengths == (1..MaxRun) \cup {MaxI32}

ScanPhases == {"scan_checked", "scan_wrapping"}

InitRuns ==
    /\ phase \in ScanPhases
    /\ text = <<>>
    /\ cover = <<>>
    /\ payload = <<>>
    /\ embedResult = None
    /\ extractResult = None
    /\ DecIdle
    /\ CliIdle

\* The iterations of `for ch in encoded.chars()` over one run.
ReadRun ==
    /\ phase \in ScanPhases
    /\ pos < MaxRuns
    /\ \E ch \in Markers \cup {Letter(1)} :
       \E n \in IF ch \in BitSymbols THEN RunLengths ELSE {1} :
          /\ Overflows(dec, ch, n) => phase = "scan_wrapping"
          /\ dec' = DecodeRun(dec, ch, n)
          /\ stalled' = Stall(dec, ch, stalled)
    /\ pos' = pos + 1
    /\ UNCHANGED <<codecVars, decoded, cliVars>>

\* `bit_count += 1` panics inside a run: the call returns nothing.
ReadRunPanic ==
    /\ phase = "scan_checked"
    /\ pos < MaxRuns
    /\ \E ch \in BitSymbols : \E n \in RunLengths : Overflows(dec, ch, n)
    /\ decoded' = [tag |-> "Panic"]
    /\ phase' = "panicked"
    /\ UNCHANGED <<cover, payload, embedResult, text, extractResult,
                   pos, dec, stalled, cliVars>>

\* The end of the loop: NoDataFound for an empty result, else the bytes.
ScanReturn ==
    /\ phase \in ScanPhases
    /\ decoded' = IF dec.result = <<>> THEN [tag |-> "NoDataFound"]
                  ELSE [tag |-> "Ok", bytes |-> dec.result]
    /\ phase' = "decoded"
    /\ UNCHANGED <<cover, payload, embedResult, text, extractResult,
                   pos, dec, stalled, cliVars>>

NextRuns == ReadRun \/ ReadRunPanic \/ ScanReturn

SpecRuns == InitRuns /\ [][NextRuns]_vars

(***************************************************************************)
(* The encode command (main.rs): encode runs its steps in program order,   *)
(* each `?` returns the error to main, which prints it and exits with 1.   *)
(* cover is the content of the cover file, payload the ciphertext the      *)
(* encryption collaborator returns.  Reads, the collaborator and writes    *)
(* may fail; a write that fails may have written a part of its data.       *)
(***************************************************************************)
EncodeSteps == <<"read_cover", "get_message", "encrypt", "embed", "write">>

InitCli ==
    /\ cover \in PlainCovers
    /\ payload = <<>>
    /\ embedResult = None
    /\ text = <<>>
    /\ extractResult = None
    /\ phase = "cli"
    /\ DecIdle
    /\ pc = "read_cover"
    /\ opts \in [message : {"arg", "file", "stdin"},
                 credential : {"recipients", "passphrase"},
                 output : {"file", "stdout"}]
    /\ steps = <<>>
    /\ encodeResult = None
    /\ written = <<>>
    /\ errStream = <<>>
    /\ exitStatus = -1

\* `?` on an Err: encode returns it to main.
ReturnErr(kind) ==
    /\ encodeResult' = [tag |-> kind]
    /\ pc' = "report"

\* The step completed and encode goes on.
StepDone(name, next) ==
    /\ steps' = Append(steps, name)
    /\ pc' = next
    /\ encodeResult' = encodeResult

\* let cover = std::fs::read_to_string(cover_path)?;
CliReadCover ==
    /\ pc = "read_cover"
    /\ \/ StepDone("read_cover", "get_message")
       \/ ReturnErr("Io") /\ steps' = steps
    /\ UNCHANGED <<codecVars, decVars, opts, written, errStream, exitStatus>>

\* The secret message from the argument, from a file or from stdin (after a
\* prompt on the error stream).
CliGetMessage ==
    /\ pc = "get_message"
    /\ \/ /\ opts.message = "arg"
          /\ StepDone("get_message", "encrypt")
          /\ errStream' = errStream
       \/ /\ opts.message = "file"
          /\ \/ StepDone("get_message", "encrypt")
             \/ ReturnErr("Io") /\ steps' = steps
          /\ errStream' = errStream
       \/ /\ opts.message = "stdin"
          /\ \/ StepDone("get_message", "encrypt")
             \/ ReturnErr("Io") /\ steps' = steps
          /\ errStream' = Append(errStream, "Enter secret message")
    /\ UNCHANGED <<codecVars, decVars, opts, written, exitStatus>>

\* crypto::encrypt_with_recipients, or read_passphrase (a prompt on the error
\* stream) and crypto::encrypt_with_passphrase.
CliEncrypt ==
    /\ pc = "encrypt"
    /\ \/ /\ \E ciphertext \in Payloads : payload' = ciphertext
          /\ StepDone("encrypt", "embed")
       \/ /\ \E kind \in {"Io", "Encryption"} : ReturnErr(kind)
          /\ steps' = steps
          /\ payload' = payload
    /\ errStream' = IF opts.credential = "passphrase"
                    THEN Append(errStream, "Passphrase: ") ELSE errStream
    /\ UNCHANGED <<cover, embedResult, text, extractResult, phase,
                   decVars, opts, written, exitStatus>>

\* let artifact = stego::embed(&cover, &encrypted)?;
CliEmbed ==
    /\ pc = "embed"
    /\ embedResult' = embed(cover, payload)
    /\ IF embedResult'.tag = "Ok"
       THEN text' = embedResult'.text /\ StepDone("embed", "write")
       ELSE text' = text /\ ReturnErr(embedResult'.tag) /\ steps' = steps
    /\ UNCHANGED <<cover, payload, extractResult, phase,
                   decVars, opts, written, errStream, exitStatus>>

\* The proper prefixes of a text: what a failed write may leave behind.
Partial(t) == {SubSeq(t, 1, n) : n \in 0..(Len(t) - 1)}

\* match output { Some(path) => std::fs::write(path, &artifact)?,
\*                None => print!("{}", artifact) }  and the closing eprintln.
\* print! panics when stdout cannot be written: the process ends with 101.
CliWrite ==
    /\ pc = "write"
    /\ \/ /\ written' = text
          /\ StepDone("write", "return")
          /\ errStream' = Append(errStream, "[OK] Embedded")
          /\ exitStatus' = exitStatus
       \/ /\ opts.output = "file"
          /\ written' \in Partial(text)
          /\ ReturnErr("Io") /\ steps' = steps
          /\ errStream' = errStream
          /\ exitStatus' = exitStatus
       \/ /\ opts.output = "stdout"
          /\ written' \in Partial(text)
          /\ encodeResult' = [tag |-> "Panic"]
          /\ errStream' = Append(errStream, "panicked: failed printing to stdout")
          /\ exitStatus' = 101
          /\ pc' = "exited"
          /\ steps' = steps
    /\ UNCHANGED <<codecVars, decVars, opts>>

\* Ok(()) at the end of encode, and main returns.
CliReturn ==
    /\ pc = "return"
    /\ encodeResult' = [tag |-> "Ok"]
    /\ exitStatus' = 0
    /\ pc' = "exited"
    /\ UNCHANGED <<codecVars, decVars, opts, steps, written, errStream>>

\* A variant of CliReport that prints the error and lets main return.
CliReportNoExit ==
    /\ pc = "report"
    /\ errStream' = Append(errStream, "Error: " \o encodeResult.tag)
    /\ exitStatus' = 0
    /\ pc' = "exited"
    /\ UNCHANGED <<codecVars, decVars, opts, steps, encodeResult, written>>

\* if let Err(e) = result { eprintln!("Error: {}", e); std::process::exit(1); }
CliReport ==
    /\ pc = "report"
    /\ errStream' = Append(errStream, "Error: " \o encodeResult.tag)
    /\ exitStatus' = 1
    /\ pc' = "exited"
    /\ UNCHANGED <<codecVars, decVars, opts, steps, encodeResult, written>>

NextCli ==
    \/ CliReadCover \/ CliGetMessage \/ CliEncrypt \/ CliEmbed
    \/ CliWrite \/ CliReturn \/ CliReport

SpecCli == InitCli /\ [][NextCli]_vars

(***************************************************************************)
(* Vocabulary of the properties, written from their statements and not     *)
(* from the operators above.                                               *)
(***************************************************************************)
\* floor(max(0, chars(C) - 1) / 9)
StatedCapacity(c) == (IF Len(c) >= 1 THEN Len(c) - 1 ELSE 0) \div 9

HasMarker(c) == \E i \in 1..Len(c) : c[i] \in Markers

Ok(bytes) == [tag |-> "Ok", bytes |-> bytes]

\* Bit k (0 = least significant) of a byte.
BitOf(byte, k) == (byte \div Pow2(k)) % 2

\* The symbol stream of a byte sequence, position by position: symbol j
\* belongs to byte (j - 1) \div 9 + 1, whose bits 7, 6, ..., 0 come first and
\* whose joiner comes ninth.
StatedStream(bytes) ==
    [j \in 1..(9 * Len(bytes)) |->
        LET byte == bytes[((j - 1) \div 9) + 1]
            off == (j - 1) % 9
        IN  IF off = 8 THEN ZW_JOINER
            ELSE IF BitOf(byte, 7 - off) = 1 THEN ZW_NON_JOINER ELSE ZW_SPACE]

StatedChecksummed(p) == to_le_bytes(crc32(p)) \o p

(***************************************************************************)
(* C1.  Round trip: whenever floor(max(0, chars(C) - 1) / 9) >= len(P) + 4,*)
(* embed(C, P) succeeds and extract of the artifact returns exactly P, for *)
(* every cover text C, marker code points in it included.                  *)
(***************************************************************************)
C1_RoundTripAnyCover ==
    /\ (embedResult # None /\ StatedCapacity(cover) >= Len(payload) + 4)
          => embedResult.tag = "Ok"
    /\ (embedResult.tag = "Ok" /\ extractResult # None)
          => extractResult = Ok(payload)

\* The same round trip for the cover texts that hold neither U+200B nor
\* U+200C (a stray U+200D never moves a byte boundary).
RoundTripNoBitMarkerInCover ==
    (\A i \in 1..Len(cover) : cover[i] \notin {ZW_SPACE, ZW_NON_JOINER})
        => C1_RoundTripAnyCover

RoundTripReached ==
    /\ embedResult.tag = "Ok"
    /\ extractResult = Ok(payload)
    /\ Len(payload) > 0

(***************************************************************************)
(* C2.  Visible-text preservation: removing every U+200B, U+200C and       *)
(* U+200D from the artifact of a successful embed yields exactly the cover *)
(* text, for every cover text.                                             *)
(***************************************************************************)
C2_VisiblePreservedAnyCover ==
    embedResult.tag = "Ok" => FilterOut(embedResult.text, Markers) = cover

\* The same for the cover texts that hold no marker code point.
VisiblePreservedPlainCover ==
    (embedResult.tag = "Ok" /\ ~HasMarker(cover))
        => FilterOut(embedResult.text, Markers) = cover

(***************************************************************************)
(* C3.  Capacity rejection: embed fails with InsufficientCover, carrying   *)
(* needed = len(P) + 4 and available = capacity(C), exactly when           *)
(* capacity(C) < len(P) + 4; a rejected embed returns no text.             *)
(***************************************************************************)
C3_CapacityRejection ==
    embedResult # None =>
        IF StatedCapacity(cover) < Len(payload) + 4
        THEN /\ embedResult = [tag |-> "InsufficientCover",
                               needed |-> Len(payload) + 4,
                               available |-> StatedCapacity(cover)]
             /\ text = <<>>
             /\ phase = "rejected"
        ELSE embedResult.tag = "Ok"

C3_Witness ==
    /\ embedResult.tag = "InsufficientCover"
    /\ embedResult.available = 4
    /\ embedResult.needed = 5

(***************************************************************************)
(* C7.  Symbol-stream preservation: for a cover text without marker code   *)
(* points, the marker characters of the artifact, in order, are the        *)
(* encoding (8 bits most significant first, then the joiner) of the 4      *)
(* little-endian CRC-32 bytes followed by the payload: 9 * (len(P) + 4)    *)
(* characters.                                                             *)
(***************************************************************************)
C7_SymbolStream ==
    (embedResult.tag = "Ok" /\ ~HasMarker(cover)) =>
        /\ Filter(embedResult.text, Markers) = StatedStream(StatedChecksummed(payload))
        /\ Len(Filter(embedResult.text, Markers)) = 9 * (Len(payload) + 4)

C7_Witness ==
    /\ embedResult.tag = "Ok"
    /\ ~HasMarker(cover)
    /\ payload = <<83>>
    /\ Len(Filter(embedResult.text, Markers)) = 45

(***************************************************************************)
(* C8.  No overflow: after a passed capacity check every symbol is placed  *)
(* in an injection point during the walk, the step that appends the        *)
(* remaining symbols appends nothing, and the artifact ends with the last  *)
(* character of the cover text.                                            *)
(***************************************************************************)
PlacedInWalk ==
    Distribute(cover, bytes_to_zero_width(data_with_checksum(payload)))

C8_NoOverflow ==
    embedResult.tag = "Ok" =>
        /\ PlacedInWalk.zw_index = 9 * (Len(payload) + 4)
        /\ embedResult.text = PlacedInWalk.result
        /\ embedResult.text[Len(embedResult.text)] = cover[Len(cover)]
        /\ Len(embedResult.text) = Len(cover) + 9 * (Len(payload) + 4)

C8_Witness ==
    /\ embedResult.tag = "Ok"
    /\ Len(cover) = 9 * (Len(payload) + 4) + 1
    /\ Len(payload) = 1

(***************************************************************************)
(* C10.  Placement shape: chunk_size = floor(9 * (len(P) + 4) /            *)
(* injection_points) is 0 or 1; gap g (after cover character g) holds the  *)
(* symbols (g - 1) * (chunk_size + 1) + 1 .. g * (chunk_size + 1) of the   *)
(* stream, clipped to its length, so the gaps that hold symbols are a      *)
(* prefix of the gaps, each full but possibly the last, and no gap holds   *)
(* more than two.                                                          *)
(***************************************************************************)
StatedChunk == (9 * (Len(payload) + 4)) \div (Len(cover) - 1)

\* Number of symbols the statement puts in gap g.
StatedGap(g) ==
    LET total == 9 * (Len(payload) + 4)
        from == (g - 1) * (StatedChunk + 1)
        upto == Min(g * (StatedChunk + 1), total)
    IN  IF from >= total THEN 0 ELSE upto - from

C10_PlacementShape ==
    embedResult.tag = "Ok" =>
        /\ StatedChunk \in {0, 1}
        /\ \A g \in 1..(Len(cover) - 1) :
              /\ StatedGap(g) <= StatedChunk + 1
              /\ (StatedGap(g) < StatedChunk + 1) =>
                    \A h \in (g + 1)..(Len(cover) - 1) : StatedGap(h) = 0
        /\ LET stream == bytes_to_zero_width(data_with_checksum(payload))
           IN  \A g \in 1..Len(cover) :
                  LET at == (g - 1) + Min((g - 1) * (StatedChunk + 1), Len(stream)) + 1
                      n == IF g < Len(cover) THEN StatedGap(g) ELSE 0
                  IN  /\ embedResult.text[at] = cover[g]
                      /\ SubSeq(embedResult.text, at + 1, at + n)
                            = SubSeq(stream, at - g + 1, at - g + n)
                      /\ g < Len(cover) => embedResult.text[at + n + 1] = cover[g + 1]

C10_Witness ==
    /\ embedResult.tag = "Ok"
    /\ StatedChunk = 1
    /\ Len(payload) = 1
    /\ StatedGap(23) = 1
    /\ StatedGap(24) = 0

(***************************************************************************)
(* C4.  Corruption detection: after a non-empty set of U+200D and/or       *)
(* U+200C characters is deleted from the artifact of a successful embed,   *)
(* extract fails with NoDataFound or IntegrityFailure, for every cover     *)
(* text.                                                                   *)
(***************************************************************************)
Damaged == embedResult.tag = "Ok" /\ text # embedResult.text

C4_CorruptionDetectedAnyCover ==
    (Damaged /\ extractResult # None)
        => extractResult \in {[tag |-> "NoDataFound"], [tag |-> "IntegrityFailure"]}

\* The same for the cover texts that hold no marker code point.
CorruptionDetectedPlainCover ==
    ~HasMarker(cover) => C4_CorruptionDetectedAnyCover

\* A joiner is deleted, four bytes still decode and the checksum catches it.
JoinerDeletedDetected ==
    /\ Damaged
    /\ ~HasMarker(cover)
    /\ Len(text) = Len(embedResult.text) - 1
    /\ Len(DecodeLoop(DecodeStart, text, 1, Len(text)).result) = 4
    /\ extractResult = [tag |-> "IntegrityFailure"]

\* Every U+200C of an artifact is deleted and extract fails.
AllBit1Deleted ==
    /\ Damaged
    /\ text = FilterOut(embedResult.text, {ZW_NON_JOINER})
    /\ extractResult = [tag |-> "NoDataFound"]

(***************************************************************************)
(* C9.  Extract outcome classification: with D the bytes decoded from the  *)
(* text, extract fails with NoDataFound exactly when len(D) < 4, fails     *)
(* with IntegrityFailure exactly when len(D) >= 4 and the little-endian    *)
(* uint32 in D[0..4] differs from crc32(D[4..]), and otherwise returns     *)
(* D[4..]; nothing else is returned.                                       *)
(***************************************************************************)
DecodedFrom(t) == DecodeLoop(DecodeStart, t, 1, Len(t)).result

C9_ExtractOutcome ==
    extractResult # None =>
        LET D == DecodedFrom(text)
        IN  IF Len(D) < 4
            THEN extractResult = [tag |-> "NoDataFound"]
            ELSE IF SubSeq(D, 1, 4) # to_le_bytes(crc32(SubSeq(D, 5, Len(D))))
            THEN extractResult = [tag |-> "IntegrityFailure"]
            ELSE extractResult = Ok(SubSeq(D, 5, Len(D)))

\* Three bytes decode: too few for a checksum.
C9_Witness ==
    /\ extractResult = [tag |-> "NoDataFound"]
    /\ Len(DecodedFrom(text)) = 3

\* The other outcomes of extract.
NoMarkerNoData == extractResult = [tag |-> "NoDataFound"] /\ ~HasMarker(text)
ChecksumMismatch == extractResult.tag = "IntegrityFailure" /\ Len(DecodedFrom(text)) = 4
PayloadReturned == extractResult.tag = "Ok" /\ Len(DecodedFrom(text)) = 5

(***************************************************************************)
(* C5.  The encode command runs read cover, obtain message, encrypt,       *)
(* embed, write output in this order and writes only after embed           *)
(* succeeded; whenever any step fails, nothing of the artifact has been    *)
(* written, the error is on the error stream and the exit status is not 0. *)
(***************************************************************************)
IsPrefix(a, b) == Len(a) <= Len(b) /\ a = SubSeq(b, 1, Len(a))

EncodeFailed == encodeResult.tag \notin {"None", "Ok"}

InOrderAndAfterEmbed ==
    /\ IsPrefix(steps, EncodeSteps)
    /\ written # <<>> =>
          /\ embedResult.tag = "Ok"
          /\ IsPrefix(SubSeq(EncodeSteps, 1, 4), steps)
          /\ IsPrefix(written, embedResult.text)

FailureReported ==
    (pc = "exited" /\ EncodeFailed) =>
        /\ exitStatus \in {1, 101}
        /\ errStream # <<>>
        /\ errStream[Len(errStream)]
              \in {"Error: " \o encodeResult.tag, "panicked: failed printing to stdout"}

ReadsStrayJoiner ==
    /\ phase = "decoding"
    /\ pos < Len(text)
    /\ text[pos + 1] = ZW_JOINER
    /\ dec.bit_count # 8
    /\ pos' = pos + 1

\* The decoder state after a joiner and then the 9 symbols of byte b.
AfterJoinerThenByte(b) ==
    DecodeLoop(dec, <<ZW_JOINER>> \o ByteSymbols(b), 1, 10)

RealignsAfterStrayJoiner ==
    (phase = "decoding" /\ dec.bit_count # 8) =>
        \A b \in ByteSet : AfterJoinerThenByte(b).result = Append(dec.result, b)

\* As amended: the stray joiner is skipped, accumulator and bit-count stay as
\* they are; the following group of 8 is committed only from bit-count 0,
\* from any other bit-count k the count moves on to k + 8 and no byte is
\* committed.
SkippedJoinerShiftsGroup ==
    (phase = "decoding" /\ dec.bit_count # 8) =>
        \A b \in ByteSet :
            IF dec.bit_count = 0
            THEN AfterJoinerThenByte(b).result = Append(dec.result, b)
            ELSE /\ AfterJoinerThenByte(b).result = dec.result
                 /\ AfterJoinerThenByte(b).bit_count = dec.bit_count + 8

C11_NoByteAfterLateJoiner ==
    stalled # -1 =>
        /\ Len(dec.result) = stalled
        /\ phase \notin ScanPhases \cup {"decoding"} =>
              decoded = IF stalled = 0 THEN [tag |-> "NoDataFound"]
                        ELSE Ok(dec.result)

\* The premise of C11: a bit symbol adds one to the bit-count, a joiner read
\* at bit-count 8 resets it, nothing else changes it.
BitCountStepsByOne ==
    [][phase = "decoding" /\ pos' = pos + 1 =>
          dec'.bit_count =
              IF text[pos'] \in BitSymbols THEN dec.bit_count + 1
              ELSE IF text[pos'] = ZW_JOINER /\ dec.bit_count = 8 THEN 0
              ELSE dec.bit_count]_vars

\* DecodeRun is the loop body applied n times, also across the wrap.
DecodeRunIsLoop ==
    phase \in ScanPhases =>
        \A ch \in Markers \cup {Letter(1)} : \A n \in 1..MaxRun :
            DecodeRun(dec, ch, n) = DecodeLoop(dec, [k \in 1..n |-> ch], 1, n)

\* A joiner read at bit-count 9, nothing committed; 2^32 - 1 bit symbols
\* later the wrapped bit-count is 8 and the next joiner commits a byte.
ByteAfterLateJoiner ==
    /\ phase = "scan_wrapping"
    /\ stalled = 0
    /\ dec.result = <<255>>

\* A joiner read at bit-count 9 with a byte committed before it, then the
\* end of a short input.
LateJoinerShortInput ==
    /\ phase = "decoded"
    /\ stalled = 1
    /\ decoded = Ok(dec.result)
    /\ Len(dec.result) = 1
    /\ dec.bit_count = 9

=============================================================================
